---- MODULE Spec2Model ----
(***************************************************************************)
(* Sports Team Manager: the localStorage persistence store                 *)
(* (app/lib/storage.ts), the TeamProvider state mirror                     *)
(* (app/contexts/TeamContext.tsx), the validators (app/lib/teams.ts) and   *)
(* the roster pages that drive them.                                       *)
(*                                                                         *)
(* JavaScript values: an optional field holds Undefined (<<>>) or <<v>>;   *)
(* an object is a function from its own keys to values, so that a key      *)
(* holding undefined and a key that is missing are different objects that  *)
(* read the same.  A nullable return is Null (<<>>) or <<value>>.          *)
(***************************************************************************)
EXTENDS Integers, Sequences, FiniteSets, TLC

VARIABLES
  blob,      \* localStorage content under STORAGE_KEY
  teams,     \* TeamProvider state: the in-memory collection
  loading,   \* TeamProvider state: the loading flag
  mounted,   \* TRUE once the mount effect has run loadTeams
  nextId,    \* how many ids generateId has handed out
  faults,    \* how often the environment has interfered (another writer, a rejected write)
  last,      \* record of the last completed call: its arguments and result
  writers    \* per writer of the key: idle, or between the read and the write of one call

vars == <<blob, teams, loading, mounted, nextId, faults, last, writers>>

\* ---------------------------------------------------------------- bounds
MaxIds == 2        \* ids generateId may hand out in one run
MaxFaults == 1     \* interferences of the environment in one run
MaxRosterIds == 3  \* ids generateId may hand out in one run of the roster pages

\* ---------------------------------------------------------------- values
Undefined == <<>>
Null == <<>>

TeamOptional == {"coach", "description"}
PlayerOptional == {"jerseyNumber"}

\* o.k for an optional key: undefined when the object has no such key
Get(o, k) == IF k \in DOMAIN o THEN o[k] ELSE Undefined

\* { ...a, ...b }: every own key of b overrides, a key holding undefined included
Spread(a, b) == [k \in DOMAIN a \cup DOMAIN b |-> IF k \in DOMAIN b THEN b[k] ELSE a[k]]

\* JSON.stringify then JSON.parse of one object: keys holding undefined are dropped
DropUndefined(o, optional) ==
  [k \in {x \in DOMAIN o : ~(x \in optional /\ o[x] = Undefined)} |-> o[k]]

JSONPlayer(p) == DropUndefined(p, PlayerOptional)

JSONTeam(t) ==
  LET d == DropUndefined(t, TeamOptional)
  IN [d EXCEPT !.players = [i \in 1..Len(t.players) |-> JSONPlayer(t.players[i])]]

JSONTeams(ts) == [i \in 1..Len(ts) |-> JSONTeam(ts[i])]

\* String.prototype.trim, for the blank character
RECURSIVE trimStart(_), trimEnd(_), Chars(_)
trimStart(s) ==
  IF Len(s) > 0 /\ SubSeq(s, 1, 1) = " " THEN trimStart(SubSeq(s, 2, Len(s))) ELSE s

trimEnd(s) ==
  IF Len(s) > 0 /\ SubSeq(s, Len(s), Len(s)) = " "
  THEN trimEnd(SubSeq(s, 1, Len(s) - 1)) ELSE s

trim(s) == trimEnd(trimStart(s))

\* a text of n characters
Chars(n) ==
  IF n = 0 THEN ""
  ELSE IF n % 2 = 0 THEN LET half == Chars(n \div 2) IN half \o half
  ELSE "x" \o Chars(n - 1)

\* array.findIndex(x => x.id === id): 0 stands for -1
FindIndex(s, id) ==
  IF \E i \in 1..Len(s) : s[i].id = id
  THEN CHOOSE i \in 1..Len(s) : s[i].id = id /\ \A j \in 1..(i - 1) : s[j].id # id
  ELSE 0

\* array.find(x => x.id === id) || null
Find(s, id) == IF FindIndex(s, id) = 0 THEN Null ELSE <<s[FindIndex(s, id)]>>

\* array.filter(x => x.id !== id)
FilterOut(s, id) == SelectSeq(s, LAMBDA x : x.id # id)

\* ---------------------------------------------------------------- storage.ts
Absent == [kind |-> "absent"]      \* getItem returns null
Garbage == [kind |-> "garbage"]    \* text JSON.parse rejects
NullDoc == [kind |-> "null"]       \* the text "null": JSON.parse returns null
Doc(ts, at) == [kind |-> "doc", teams |-> ts, lastUpdated |-> at]
NoWindow == [kind |-> "nowindow"]      \* typeof window === 'undefined'
Unreadable == [kind |-> "unreadable"]  \* localStorage.getItem throws

\* faulty variant: getStorageData without its try / catch
getStorageData_noCatch(b, now) ==
  CASE b.kind = "nowindow" -> Doc(<<>>, now)
    [] b.kind = "absent" -> Doc(<<>>, now)
    [] b.kind = "unreadable" -> NullDoc
    [] b.kind = "garbage" -> NullDoc
    [] OTHER -> b

getStorageData(b, now) ==
  CASE b.kind = "nowindow" -> Doc(<<>>, now)
    [] b.kind = "unreadable" -> Doc(<<>>, now)
    [] b.kind = "absent" -> Doc(<<>>, now)
    [] b.kind = "garbage" -> Doc(<<>>, now)
    [] OTHER -> b

\* data.teams on the value JSON.parse returned: a TypeError when that value is null
ReadThrows(b) == getStorageData(b, 1).kind = "null"

\* whether a write lands: not without a window, not when localStorage throws,
\* not when setItem throws (quota, ~wok)
Accepts(b, wok) == wok /\ b.kind \notin {"nowindow", "unreadable"}

\* an error of setItem is caught and logged
saveStorageData(b, ts, now, wok) ==
  IF Accepts(b, wok) THEN Doc(JSONTeams(ts), now) ELSE b

getAllTeams(b) == getStorageData(b, 1).teams

getTeamById(b, id) == Find(getAllTeams(b), id)

\* faulty variant: saveTeam that always appends
storage_saveTeam_append(b, team, now, wok) ==
  saveStorageData(b, Append(getStorageData(b, now).teams, team), now, wok)

storage_saveTeam(b, team, now, wok) ==
  LET data == getStorageData(b, now)
      existingIndex == FindIndex(data.teams, team.id)
  IN saveStorageData(b,
       IF existingIndex > 0
       THEN [data.teams EXCEPT ![existingIndex] = team]
       ELSE Append(data.teams, team),
       now, wok)

storage_deleteTeam(b, id, now, wok) ==
  saveStorageData(b, FilterOut(getStorageData(b, now).teams, id), now, wok)

\* each returns [ok |-> the boolean returned, blob |-> the content afterwards]
addPlayerToTeam(b, teamId, player, now, wok) ==
  LET team == getTeamById(b, teamId)
  IN IF team = Null THEN [ok |-> FALSE, blob |-> b]
     ELSE [ok |-> TRUE,
           blob |-> storage_saveTeam(b,
             [team[1] EXCEPT !.players = Append(@, player)], now, wok)]

updatePlayerInTeam(b, teamId, playerId, updatedPlayer, now, wok) ==
  LET team == getTeamById(b, teamId)
  IN IF team = Null THEN [ok |-> FALSE, blob |-> b]
     ELSE LET playerIndex == FindIndex(team[1].players, playerId)
          IN IF playerIndex = 0 THEN [ok |-> FALSE, blob |-> b]
             ELSE [ok |-> TRUE,
                   blob |-> storage_saveTeam(b,
                     [team[1] EXCEPT !.players[playerIndex] = updatedPlayer], now, wok)]

removePlayerFromTeam(b, teamId, playerId, now, wok) ==
  LET team == getTeamById(b, teamId)
  IN IF team = Null THEN [ok |-> FALSE, blob |-> b]
     ELSE [ok |-> TRUE,
           blob |-> storage_saveTeam(b,
             [team[1] EXCEPT !.players = FilterOut(@, playerId)], now, wok)]

\* ---------------------------------------------------------------- storage.ts, one call in two steps
\* localStorage has no lock: between the getItem and the setItem of one saveTeam or
\* deleteTeam call of one tab, a call of another tab may run
Writers == {"A", "B"}

Idle == [at |-> "idle"]

\* a writer that has read data and has not written yet
Reading(call, data) == [at |-> "read", call |-> call, data |-> data]

\* what saveTeam / deleteTeam make of the data they read
Mutated(data, call) ==
  IF call.op = "saveTeam"
  THEN LET team == call.team[1]
           existingIndex == FindIndex(data.teams, team.id)
       IN IF existingIndex > 0
          THEN [data.teams EXCEPT ![existingIndex] = team]
          ELSE Append(data.teams, team)
  ELSE FilterOut(data.teams, call.id)

\* faulty variant: a write step that reads the content again before it writes
WriteStep_readsAgain(b, data, call, now, wok) ==
  saveStorageData(b, Mutated(IF ReadThrows(b) THEN data ELSE getStorageData(b, now), call),
                  now, wok)

\* saveStorageData(data) at the end of saveTeam / deleteTeam
WriteStep(b, data, call, now, wok) ==
  saveStorageData(b, Mutated(data, call), now, wok)

\* the same call run without interruption on content b
Atomic(b, call, now, wok) ==
  IF call.op = "saveTeam"
  THEN storage_saveTeam(b, call.team[1], now, wok)
  ELSE storage_deleteTeam(b, call.id, now, wok)

\* Date.now().toString(36) + Math.random()...: the id handed out after n others
generateId(n) == n + 1

\* new Date().toISOString(): the clock, read as a counter that has advanced once
\* for every id handed out (generateId reads the same clock)
Now(n) == n + 1

\* ---------------------------------------------------------------- TeamContext.tsx
\* what one call of a TeamProvider operation leaves behind
\* (saved: the call reached saveStorageData, so setItem was attempted)
Result(b, ts, n, ret, threw, saved) ==
  [blob |-> b, teams |-> ts, nextId |-> n, ret |-> ret, threw |-> threw, saved |-> saved]

\* prev.map(team => team.id === id ? f(team) : team)
MapTeam(ts, id, f(_)) == [i \in 1..Len(ts) |-> IF ts[i].id = id THEN f(ts[i]) ELSE ts[i]]

\* faulty variant: a reload that keeps the teams only the memory holds
loadTeams_keepMemoryOnly(b, ts) ==
  IF ReadThrows(b)
  THEN [teams |-> ts, loading |-> FALSE, threw |-> FALSE]
  ELSE [teams |-> getAllTeams(b) \o
                  SelectSeq(ts, LAMBDA t : FindIndex(getAllTeams(b), t.id) = 0),
        loading |-> FALSE, threw |-> FALSE]

\* faulty variant: loadTeams without its finally block
loadTeams_noFinally(b, ts) ==
  IF ReadThrows(b)
  THEN [teams |-> ts, loading |-> TRUE, threw |-> FALSE]
  ELSE [teams |-> getAllTeams(b), loading |-> FALSE, threw |-> FALSE]

\* faulty variant: loadTeams that never resets the loading flag
loadTeams_neverSettles(b, ts) ==
  IF ReadThrows(b)
  THEN [teams |-> ts, loading |-> TRUE, threw |-> FALSE]
  ELSE [teams |-> getAllTeams(b), loading |-> TRUE, threw |-> FALSE]

\* the try / catch / finally of loadTeams: teams and loading afterwards, and
\* whether the error left the function
loadTeams(b, ts) ==
  IF ReadThrows(b)
  THEN [teams |-> ts, loading |-> FALSE, threw |-> FALSE]
  ELSE [teams |-> getAllTeams(b), loading |-> FALSE, threw |-> FALSE]

\* no try / catch: an error of storage.saveTeam leaves createTeam (threw), after
\* generateId and before setTeams
createTeam(b, ts, n, teamData, now, wok) ==
  LET newTeam == Spread(teamData,
        [id |-> generateId(n), dateCreated |-> now, players |-> <<>>, isActive |-> TRUE])
  IN IF ReadThrows(b)
     THEN Result(b, ts, n + 1, Null, TRUE, FALSE)
     ELSE Result(storage_saveTeam(b, newTeam, now, wok), Append(ts, newTeam), n + 1,
                 <<newTeam>>, FALSE, TRUE)

\* faulty variant: updateTeam that looks the team up in memory
updateTeam_lookupMemory(b, ts, n, id, updates, now, wok) ==
  IF ReadThrows(b) THEN Result(b, ts, n, Null, TRUE, FALSE)
  ELSE LET existingTeam == Find(ts, id)
       IN IF existingTeam = Null THEN Result(b, ts, n, Null, FALSE, FALSE)
          ELSE LET updatedTeam == Spread(existingTeam[1], updates)
               IN Result(storage_saveTeam(b, updatedTeam, now, wok),
                         MapTeam(ts, id, LAMBDA t : updatedTeam), n,
                         <<updatedTeam>>, FALSE, TRUE)

\* faulty variant: updateTeam that merges the update into each in-memory copy
updateTeam_mergeMemory(b, ts, n, id, updates, now, wok) ==
  IF ReadThrows(b) THEN Result(b, ts, n, Null, TRUE, FALSE)
  ELSE LET existingTeam == getTeamById(b, id)
       IN IF existingTeam = Null THEN Result(b, ts, n, Null, FALSE, FALSE)
          ELSE LET updatedTeam == Spread(existingTeam[1], updates)
               IN Result(storage_saveTeam(b, updatedTeam, now, wok),
                         MapTeam(ts, id, LAMBDA t : Spread(t, updates)), n,
                         <<updatedTeam>>, FALSE, TRUE)

\* storage.getTeamById and storage.saveTeam throw when the stored text parses to
\* null; updateTeam has no try / catch, so the error leaves it (threw)
updateTeam(b, ts, n, id, updates, now, wok) ==
  IF ReadThrows(b) THEN Result(b, ts, n, Null, TRUE, FALSE)
  ELSE LET existingTeam == getTeamById(b, id)
       IN IF existingTeam = Null THEN Result(b, ts, n, Null, FALSE, FALSE)
          ELSE LET updatedTeam == Spread(existingTeam[1], updates)
               IN Result(storage_saveTeam(b, updatedTeam, now, wok),
                         MapTeam(ts, id, LAMBDA t : updatedTeam), n,
                         <<updatedTeam>>, FALSE, TRUE)

\* faulty variant: deleteTeam that filters the memory before it calls the store
deleteTeam_removesFirst(b, ts, n, id, now, wok) ==
  IF ReadThrows(b) THEN Result(b, FilterOut(ts, id), n, FALSE, FALSE, FALSE)
  ELSE Result(storage_deleteTeam(b, id, now, wok), FilterOut(ts, id), n, TRUE, FALSE, TRUE)

\* faulty variant: deleteTeam that empties the memory
deleteTeam_clearsMemory(b, ts, n, id, now, wok) ==
  IF ReadThrows(b) THEN Result(b, ts, n, FALSE, FALSE, FALSE)
  ELSE Result(storage_deleteTeam(b, id, now, wok), <<>>, n, TRUE, FALSE, TRUE)

\* try { storage.deleteTeam; setTeams; return true } catch { return false }
deleteTeam(b, ts, n, id, now, wok) ==
  IF ReadThrows(b) THEN Result(b, ts, n, FALSE, FALSE, FALSE)
  ELSE Result(storage_deleteTeam(b, id, now, wok), FilterOut(ts, id), n, TRUE, FALSE, TRUE)

\* faulty variant: getTeam that looks the team up in the store
getTeam_readsStore(ts, id) ==
  IF ReadThrows(blob) THEN Null ELSE getTeamById(blob, id)

getTeam(ts, id) == Find(ts, id)

getPlayer(ts, teamId, playerId) ==
  LET team == getTeam(ts, teamId)
  IN IF team = Null THEN Null ELSE Find(team[1].players, playerId)

addPlayer(b, ts, n, teamId, playerData, now, wok) ==
  LET newPlayer == Spread(playerData,
        [id |-> generateId(n), dateAdded |-> now, isActive |-> TRUE])
  IN IF ReadThrows(b) THEN Result(b, ts, n + 1, Null, TRUE, FALSE)
     ELSE LET r == addPlayerToTeam(b, teamId, newPlayer, now, wok)
          IN IF ~r.ok THEN Result(b, ts, n + 1, Null, FALSE, FALSE)
             ELSE Result(r.blob,
                         MapTeam(ts, teamId,
                           LAMBDA t : [t EXCEPT !.players = Append(@, newPlayer)]),
                         n + 1, <<newPlayer>>, FALSE, TRUE)

updatePlayer(b, ts, n, teamId, playerId, updates, now, wok) ==
  LET team == getTeam(ts, teamId)
  IN IF team = Null THEN Result(b, ts, n, Null, FALSE, FALSE)
     ELSE LET existingPlayer == Find(team[1].players, playerId)
          IN IF existingPlayer = Null THEN Result(b, ts, n, Null, FALSE, FALSE)
             ELSE IF ReadThrows(b) THEN Result(b, ts, n, Null, TRUE, FALSE)
             ELSE LET updatedPlayer == Spread(existingPlayer[1], updates)
                      r == updatePlayerInTeam(b, teamId, playerId, updatedPlayer, now, wok)
                  IN IF ~r.ok THEN Result(b, ts, n, Null, FALSE, FALSE)
                     ELSE Result(r.blob,
                            MapTeam(ts, teamId,
                              LAMBDA t : [t EXCEPT !.players =
                                [i \in 1..Len(@) |->
                                  IF @[i].id = playerId THEN updatedPlayer ELSE @[i]]]),
                            n, <<updatedPlayer>>, FALSE, TRUE)

removePlayer(b, ts, n, teamId, playerId, now, wok) ==
  IF ReadThrows(b) THEN Result(b, ts, n, FALSE, TRUE, FALSE)
  ELSE LET r == removePlayerFromTeam(b, teamId, playerId, now, wok)
       IN IF ~r.ok THEN Result(b, ts, n, FALSE, FALSE, FALSE)
          ELSE Result(r.blob,
                      MapTeam(ts, teamId,
                        LAMBDA t : [t EXCEPT !.players = FilterOut(@, playerId)]),
                      n, TRUE, FALSE, TRUE)

\* ---------------------------------------------------------------- teams.ts
\* the errors validateTeam collects, in order; an optional text is checked when truthy
validateTeam(team) ==
  LET hasName == "name" \in DOMAIN team /\ team.name # ""
      description == Get(team, "description")
      errors ==
        (IF ~hasName \/ Len(trim(team.name)) = 0
         THEN <<"Team name is required">> ELSE <<>>)
        \o (IF hasName /\ Len(trim(team.name)) > 100
            THEN <<"Team name must be 100 characters or less">> ELSE <<>>)
        \o (IF description # Undefined /\ description[1] # "" /\ Len(description[1]) > 500
            THEN <<"Team description must be 500 characters or less">> ELSE <<>>)
  IN [isValid |-> errors = <<>>, errors |-> errors]

\* /^[^\s@]+@[^\s@]+\.[^\s@]+$/: no blank, one @ that is not first, and after it a
\* dot with a character before it and a character behind it
isValidEmail(email) ==
  LET ats == {i \in 1..Len(email) : SubSeq(email, i, i) = "@"}
  IN /\ \A i \in 1..Len(email) : SubSeq(email, i, i) # " "
     /\ Cardinality(ats) = 1
     /\ \A a \in ats :
          /\ a > 1
          /\ \E d \in (a + 2)..(Len(email) - 1) : SubSeq(email, d, d) = "."

PhoneChars == {"0", "1", "2", "3", "4", "5", "6", "7", "8", "9", " ", "-", "(", ")", "+", "."}

\* /^[\d\s\-\(\)\+\.]{10,}$/
isValidPhone(phone) ==
  /\ Len(phone) >= 10
  /\ \A i \in 1..Len(phone) : SubSeq(phone, i, i) \in PhoneChars

\* an optional text that is set and not empty
Truthy(o, k) == Get(o, k) # Undefined /\ Get(o, k)[1] # ""

\* faulty variant: a duplicate search that also counts inactive players
FindDuplicate_anyStatus(player, existingPlayers) ==
  LET number == Get(player, "jerseyNumber")
      taken(p) ==
        /\ ("id" \notin DOMAIN player \/ p.id # player.id)
        /\ Get(p, "jerseyNumber") = number
      hits == {i \in 1..Len(existingPlayers) : taken(existingPlayers[i])}
  IN IF hits = {} THEN Undefined
     ELSE <<existingPlayers[CHOOSE i \in hits : \A k \in hits : i <= k]>>

\* existingPlayers.find(p => p.id !== player.id && p.jerseyNumber ===
\* player.jerseyNumber && p.isActive): the first such player, or undefined
FindDuplicate(player, existingPlayers) ==
  LET number == Get(player, "jerseyNumber")
      taken(p) ==
        /\ ("id" \notin DOMAIN player \/ p.id # player.id)
        /\ Get(p, "jerseyNumber") = number
        /\ p.isActive
      hits == {i \in 1..Len(existingPlayers) : taken(existingPlayers[i])}
  IN IF hits = {} THEN Undefined
     ELSE <<existingPlayers[CHOOSE i \in hits : \A k \in hits : i <= k]>>

TakenBy(number, name) ==
  "Jersey number " \o ToString(number) \o " is already taken by " \o name

\* the errors validatePlayer collects, in order
PlayerErrors(player, existingPlayers) ==
  LET hasName == "name" \in DOMAIN player /\ player.name # ""
      number == Get(player, "jerseyNumber")
      duplicate == FindDuplicate(player, existingPlayers)
  IN (IF ~hasName \/ Len(trim(player.name)) = 0
      THEN <<"Player name is required">> ELSE <<>>)
     \o (IF hasName /\ Len(trim(player.name)) > 100
         THEN <<"Player name must be 100 characters or less">> ELSE <<>>)
     \o (IF Truthy(player, "email") /\ ~isValidEmail(player.email[1])
         THEN <<"Invalid email format">> ELSE <<>>)
     \o (IF Truthy(player, "phone") /\ ~isValidPhone(player.phone[1])
         THEN <<"Invalid phone number format">> ELSE <<>>)
     \o (IF number # Undefined /\ (number[1] < 0 \/ number[1] > 99)
         THEN <<"Jersey number must be between 0 and 99">> ELSE <<>>)
     \o (IF number # Undefined /\ duplicate # Undefined
         THEN <<TakenBy(number[1], duplicate[1].name)>> ELSE <<>>)
     \o (IF Truthy(player, "notes") /\ Len(player.notes[1]) > 1000
         THEN <<"Notes must be 1000 characters or less">> ELSE <<>>)

\* faulty variant: validatePlayer that returns at its first error
validatePlayer_firstErrorOnly(player, existingPlayers) ==
  LET errors == PlayerErrors(player, existingPlayers)
  IN [isValid |-> errors = <<>>,
      errors |-> IF errors = <<>> THEN errors ELSE <<errors[1]>>]

\* faulty variant: validatePlayer with the form's range, 0 to 999
validatePlayer_formRange(player, existingPlayers) ==
  LET errors == PlayerErrors(player, existingPlayers)
      kept == SelectSeq(errors, LAMBDA e :
                e # "Jersey number must be between 0 and 99"
                  \/ Get(player, "jerseyNumber")[1] \notin 0..999)
  IN [isValid |-> kept = <<>>, errors |-> kept]

validatePlayer(player, existingPlayers) ==
  LET errors == PlayerErrors(player, existingPlayers)
  IN [isValid |-> errors = <<>>, errors |-> errors]

\* faulty variant: statistics that count the positions of active players only
calculateTeamStats_activeOnly(team) ==
  LET players == team.players
      held == {i \in 1..Len(players) : Truthy(players[i], "position") /\ players[i].isActive}
  IN [totalPlayers |-> Len(players),
      activePlayers |-> Cardinality({i \in 1..Len(players) : players[i].isActive}),
      inactivePlayers |-> Cardinality({i \in 1..Len(players) : ~players[i].isActive}),
      positionCounts |->
        IF Len(players) > 0
        THEN <<[position \in {players[i].position[1] : i \in held} |->
                  Cardinality({i \in held : players[i].position[1] = position})]>>
        ELSE Undefined]

\* positionCounts is built when the team has players, from the truthy positions
calculateTeamStats(team) ==
  LET players == team.players
      held == {i \in 1..Len(players) : Truthy(players[i], "position")}
  IN [totalPlayers |-> Len(players),
      activePlayers |-> Cardinality({i \in 1..Len(players) : players[i].isActive}),
      inactivePlayers |-> Cardinality({i \in 1..Len(players) : ~players[i].isActive}),
      positionCounts |->
        IF Len(players) > 0
        THEN <<[position \in {players[i].position[1] : i \in held} |->
                  Cardinality({i \in held : players[i].position[1] = position})]>>
        ELSE Undefined]

\* String.prototype.toLowerCase, for the letters A to Z
Upper == "ABCDEFGHIJKLMNOPQRSTUVWXYZ"

Lower == "abcdefghijklmnopqrstuvwxyz"

RECURSIVE toLowerCase(_)
toLowerCase(s) ==
  IF Len(s) = 0 THEN ""
  ELSE LET c == SubSeq(s, 1, 1)
           hit == {i \in 1..Len(Upper) : SubSeq(Upper, i, i) = c}
       IN (IF hit = {} THEN c ELSE LET i == CHOOSE i \in hit : TRUE IN SubSeq(Lower, i, i))
          \o toLowerCase(SubSeq(s, 2, Len(s)))

\* String.prototype.includes
includes(s, term) ==
  \/ Len(term) = 0
  \/ \E i \in 1..(Len(s) - Len(term) + 1) : SubSeq(s, i, i + Len(term) - 1) = term

\* the texts the sorted rosters hold, in the order of localeCompare
Collation == <<"", "Alice", "Bob", "Charlie", "Defense", "Forward">>

\* a.localeCompare(b): negative, zero or positive
localeCompare(a, b) ==
  (CHOOSE i \in 1..Len(Collation) : Collation[i] = a)
  - (CHOOSE i \in 1..Len(Collation) : Collation[i] = b)

\* the comparison of the comparator of sortPlayers, before the sign of the order
Comparison(a, b, sortBy) ==
  CASE sortBy = "name" -> localeCompare(a.name, b.name)
    [] sortBy = "position" ->
         localeCompare(IF Truthy(a, "position") THEN a.position[1] ELSE "",
                       IF Truthy(b, "position") THEN b.position[1] ELSE "")
    [] sortBy = "jerseyNumber" ->
         (IF Get(a, "jerseyNumber") = Undefined THEN 999 ELSE a.jerseyNumber[1])
         - (IF Get(b, "jerseyNumber") = Undefined THEN 999 ELSE b.jerseyNumber[1])
    [] sortBy = "dateAdded" -> a.dateAdded - b.dateAdded

\* [...players].sort(comparator): the sort is stable
sortPlayers(players, sortBy, sortOrder) ==
  LET n == Len(players)
      cmp(i, j) ==
        LET comparison == Comparison(players[i], players[j], sortBy)
        IN IF sortOrder = "desc" THEN 0 - comparison ELSE comparison
      before(i, j) == cmp(i, j) < 0 \/ (cmp(i, j) = 0 /\ i < j)
      rank(i) == 1 + Cardinality({j \in 1..n : before(j, i)})
  IN [k \in 1..n |-> players[CHOOSE i \in 1..n : rank(i) = k]]

\* the searchTerm predicate of filterPlayers, for the term as the code prepared it
Matches(p, searchTerm) ==
  \/ includes(toLowerCase(p.name), searchTerm)
  \/ Truthy(p, "email") /\ includes(toLowerCase(p.email[1]), searchTerm)
  \/ Truthy(p, "position") /\ includes(toLowerCase(p.position[1]), searchTerm)
  \/ Truthy(p, "notes") /\ includes(toLowerCase(p.notes[1]), searchTerm)

\* faulty variant: filterPlayers that skips the isActive filter
filterPlayers_ignoresIsActive(players, filters) ==
  LET byPosition ==
        IF Truthy(filters, "position")
        THEN SelectSeq(players, LAMBDA p : Get(p, "position") = filters.position)
        ELSE players
  IN IF Truthy(filters, "searchTerm")
     THEN SelectSeq(byPosition,
            LAMBDA p : Matches(p, trim(toLowerCase(filters.searchTerm[1]))))
     ELSE byPosition

filterPlayers(players, filters) ==
  LET byActive ==
        IF Get(filters, "isActive") # Undefined
        THEN SelectSeq(players, LAMBDA p : p.isActive = filters.isActive[1])
        ELSE players
      byPosition ==
        IF Truthy(filters, "position")
        THEN SelectSeq(byActive, LAMBDA p : Get(p, "position") = filters.position)
        ELSE byActive
  IN IF Truthy(filters, "searchTerm")
     THEN SelectSeq(byPosition,
            LAMBDA p : Matches(p, trim(toLowerCase(filters.searchTerm[1]))))
     ELSE byPosition

\* the numbers 1..maxNumber no active player of the team wears
getAvailableJerseyNumbers(team) ==
  {i \in 1..99 :
     ~\E k \in 1..Len(team.players) :
        team.players[k].isActive /\ Get(team.players[k], "jerseyNumber") = <<i>>}

\* ---------------------------------------------------------------- PlayerForm.tsx, PlayerProfile.tsx
\* parseInt on the text of a number input
parseInt(text) ==
  CASE text = "0" -> 0
    [] text = "7" -> 7
    [] text = "100" -> 100

\* PlayerForm's formData after the user typed a name and a jersey number:
\* e.target.value ? parseInt(e.target.value) : undefined
PlayerForm_formData(nameText, jerseyText) ==
  [name |-> nameText,
   jerseyNumber |-> IF jerseyText = "" THEN Undefined ELSE <<parseInt(jerseyText)>>]

\* the jersey check reads formData.jerseyNumber for truth, so 0 is never looked up
PlayerForm_validateForm(formData, existingJerseyNumbers) ==
  LET number == formData.jerseyNumber
  IN /\ formData.name # ""
     /\ ~(number # Undefined /\ number[1] # 0 /\ number[1] \in existingJerseyNumbers)
     /\ ~(number # Undefined /\ (number[1] < 0 \/ number[1] > 999))

\* PlayerProfile's formData: the jersey number is the text of the input
PlayerProfile_validateForm(formData) ==
  /\ formData.name # ""
  /\ formData.jerseyNumber # "" =>
       ~(parseInt(formData.jerseyNumber) < 0 \/ parseInt(formData.jerseyNumber) > 99)

\* the updatedData PlayerProfile.handleSave passes to onSave
PlayerProfile_updatedData(formData) ==
  [name |-> formData.name,
   isActive |-> formData.isActive,
   jerseyNumber |-> IF formData.jerseyNumber # ""
                    THEN <<parseInt(formData.jerseyNumber)>> ELSE Undefined]

\* ---------------------------------------------------------------- players/page.tsx, players/[playerId]/page.tsx
\* what a page handler leaves behind: the page's error in ret, no error leaves it
Page(r, error) == [r EXCEPT !.ret = error, !.threw = FALSE]

\* await refreshData() after a successful call of the provider
Refreshed(r) == [r EXCEPT !.teams = loadTeams(r.blob, r.teams).teams]

\* the existingJerseyNumbers the players page hands to PlayerForm: the truthy
\* numbers of the other players, active or not
existingJerseyNumbers(team, editingId) ==
  IF getAvailableJerseyNumbers(team) # {}
  THEN {Get(team.players[i], "jerseyNumber")[1] :
          i \in {k \in 1..Len(team.players) :
                   /\ team.players[k].id # editingId
                   /\ Get(team.players[k], "jerseyNumber") # Undefined
                   /\ Get(team.players[k], "jerseyNumber")[1] # 0}}
  ELSE {}

handleAddPlayer(b, ts, n, teamId, formData, now, wok) ==
  LET team == getTeam(ts, teamId)[1]
      validation == validatePlayer(formData, team.players)
  IN IF ~validation.isValid
     THEN Page(Result(b, ts, n, Null, FALSE, FALSE), validation.errors)
     ELSE LET r == addPlayer(b, ts, n, teamId, formData, now, wok)
          IN IF r.threw \/ r.ret = Null
             THEN Page(r, <<"Failed to add player. Please try again.">>)
             ELSE Page(Refreshed(r), <<>>)

handleEditPlayer(b, ts, n, teamId, editingId, formData, now, wok) ==
  LET team == getTeam(ts, teamId)[1]
      otherPlayers == FilterOut(team.players, editingId)
      validation == validatePlayer(formData, otherPlayers)
  IN IF ~validation.isValid
     THEN Page(Result(b, ts, n, Null, FALSE, FALSE), validation.errors)
     ELSE LET r == updatePlayer(b, ts, n, teamId, editingId, formData, now, wok)
          IN IF r.threw \/ r.ret = Null
             THEN Page(r, <<"Failed to update player. Please try again.">>)
             ELSE Page(Refreshed(r), <<>>)

handleDeletePlayer(b, ts, n, teamId, playerId, now, wok) ==
  LET r == removePlayer(b, ts, n, teamId, playerId, now, wok)
  IN IF r.threw \/ r.ret = FALSE
     THEN Page(r, <<"Failed to remove player. Please try again.">>)
     ELSE Page(Refreshed(r), <<>>)

\* no validatePlayer on this path
handleTogglePlayerStatus(b, ts, n, teamId, playerId, isActive, now, wok) ==
  LET team == getTeam(ts, teamId)[1]
  IN IF Find(team.players, playerId) = Null
     THEN Page(Result(b, ts, n, Null, FALSE, FALSE), <<>>)
     ELSE LET r == updatePlayer(b, ts, n, teamId, playerId, [isActive |-> isActive], now, wok)
          IN IF r.threw
             THEN Page(r, <<"Failed to update player status. Please try again.">>)
             ELSE IF r.ret = Null THEN Page(r, <<>>)
             ELSE Page(Refreshed(r), <<>>)

\* the profile page: no validatePlayer and no refreshData on this path
handleSave(b, ts, n, teamId, playerId, updatedData, now, wok) ==
  Page(updatePlayer(b, ts, n, teamId, playerId, updatedData, now, wok), <<>>)

\* if (validateForm()) onSubmit(formData): submitted is what onSubmit leaves behind
PlayerForm_handleSubmit(b, ts, n, formData, existing, submitted) ==
  IF PlayerForm_validateForm(formData, existing)
  THEN submitted
  ELSE Page(Result(b, ts, n, Null, FALSE, FALSE), <<"This jersey number is already taken">>)

\* if (!validateForm()) return; ... await onSave(updatedData)
PlayerProfile_handleSave(b, ts, n, teamId, playerId, formData, now, wok) ==
  IF PlayerProfile_validateForm(formData)
  THEN handleSave(b, ts, n, teamId, playerId, PlayerProfile_updatedData(formData), now, wok)
  ELSE Page(Result(b, ts, n, Null, FALSE, FALSE), <<"Jersey number must be between 0 and 99">>)

\* ---------------------------------------------------------------- TeamForm.tsx, teams/create/page.tsx, teams/[id]/page.tsx
\* TeamForm's formData and the detail page's editData: every field a text
TeamFormData(nameText, descriptionText) ==
  [name |-> nameText, description |-> <<descriptionText>>, coach |-> <<"">>]

TeamForm_validateForm(formData) == trim(formData.name) # ""

\* CreateTeamPage.handleSubmit
CreateTeamPage_handleSubmit(b, ts, n, formData, now, wok) ==
  LET validation == validateTeam(formData)
  IN IF ~validation.isValid
     THEN Page(Result(b, ts, n, Null, FALSE, FALSE), validation.errors)
     ELSE LET r == createTeam(b, ts, n, Spread(formData, [isActive |-> TRUE]), now, wok)
          IN IF r.threw THEN Page(r, <<"Failed to create team. Please try again.">>)
             ELSE Page(r, <<>>)

\* if (validateForm()) onSubmit(formData)
TeamForm_handleSubmit(b, ts, n, formData, now, wok) ==
  IF TeamForm_validateForm(formData)
  THEN CreateTeamPage_handleSubmit(b, ts, n, formData, now, wok)
  ELSE Page(Result(b, ts, n, Null, FALSE, FALSE), <<"Team name is required">>)

\* TeamDetailPage.handleSaveEdit: no validateTeam on this path
handleSaveEdit(b, ts, n, teamId, editData, now, wok) ==
  Page(updateTeam(b, ts, n, teamId, editData, now, wok), <<>>)

handleToggleTeamStatus(b, ts, n, teamId, now, wok) ==
  Page(updateTeam(b, ts, n, teamId, [isActive |-> ~getTeam(ts, teamId)[1].isActive],
                  now, wok), <<>>)

\* ---------------------------------------------------------------- inputs
\* ids a caller may pass: the ids of the teams (players) the store or the memory
\* holds, and 0, an id nothing has (any other id behaves like it)
IdsOf(s) == {s[i].id : i \in 1..Len(s)}

StoredTeams == IF ReadThrows(blob) THEN <<>> ELSE getAllTeams(blob)

TeamIds == {0} \cup IdsOf(teams) \cup IdsOf(StoredTeams)

PlayerIds ==
  {0} \cup UNION {IdsOf(teams[i].players) : i \in 1..Len(teams)}
      \cup UNION {IdsOf(StoredTeams[i].players) : i \in 1..Len(StoredTeams)}

TeamDataInputs ==
  { [name |-> "A", isActive |-> TRUE],
    [name |-> "B", isActive |-> FALSE, coach |-> Undefined] }

TeamUpdates ==
  { [name |-> "C"],
    [coach |-> Undefined, isActive |-> FALSE] }

OtherTabUpdates == { [coach |-> <<"Kim">>] }

PlayerDataInputs ==
  { [name |-> "P", isActive |-> TRUE, jerseyNumber |-> <<7>>],
    [name |-> "Q", isActive |-> FALSE] }

PlayerUpdates ==
  { [isActive |-> FALSE],
    [name |-> "R", jerseyNumber |-> Undefined] }

\* Partial<Team> and Partial<Player> also admit the fields the layer generates
TeamDateUpdates == {[dateCreated |-> 0]}

PlayerDateUpdates == {[dateAdded |-> 0]}

TeamIdUpdates == {[id |-> i] : i \in 1..MaxIds}

PlayerIdUpdates == {[id |-> i] : i \in 1..MaxIds}

\* what the user types into the name and the jersey number inputs
NameTexts == {"P", ""}

JerseyTexts == {"", "0", "7", "100"}

\* what the user types into the team name and the description inputs
TeamNameTexts == {"A", "", " "}

DescriptionTexts == {"", Chars(501)}

\* the teams a caller hands to the store's saveTeam
StoredPlayerInputs ==
  { <<>>,
    <<[id |-> 1, name |-> "P", isActive |-> TRUE, dateAdded |-> 1, jerseyNumber |-> <<7>>]>>,
    <<[id |-> 1, name |-> "Q", isActive |-> FALSE, dateAdded |-> 1, jerseyNumber |-> Undefined]>> }

TeamInputs ==
  UNION { { [id |-> id, name |-> name, isActive |-> TRUE, dateCreated |-> 1, players |-> ps],
            [id |-> id, name |-> name, isActive |-> FALSE, dateCreated |-> 1, players |-> ps,
             coach |-> Undefined],
            [id |-> id, name |-> name, isActive |-> TRUE, dateCreated |-> 1, players |-> ps,
             coach |-> <<"Kim">>] } :
          id \in 1..MaxIds, name \in {"A", "B"}, ps \in StoredPlayerInputs }

\* the calls of a writer: it saves teams under its own name, or deletes
WriterCalls(w) ==
  {[op |-> "saveTeam", id |-> id, team |-> <<[id |-> id, name |-> w, isActive |-> TRUE,
                                              dateCreated |-> 1, players |-> <<>>]>>] :
     id \in 1..MaxIds}
  \cup {[op |-> "deleteTeam", id |-> id, team |-> <<>>] : id \in 1..MaxIds}

\* the ids of the players the team with that id holds in a collection
PlayerIdsOfTeam(ts, teamId) ==
  IF Find(ts, teamId) = Null THEN {} ELSE IdsOf(Find(ts, teamId)[1].players)

\* the rosters and the players handed to validatePlayer
RosterPlayer(id, number, isActive) ==
  [id |-> id, name |-> "P" \o ToString(id), jerseyNumber |-> <<number>>,
   isActive |-> isActive, dateAdded |-> 1]

Rosters ==
  {<<>>, <<RosterPlayer(2, 10, TRUE), RosterPlayer(1, 10, TRUE)>>}
  \cup {<<RosterPlayer(1, 10, a1), RosterPlayer(2, n2, a2)>> :
          a1 \in BOOLEAN, a2 \in BOOLEAN, n2 \in {10, 100}}

PlayerNames == {"P3", "", " ", Chars(101)}

JerseyNumbers == {Undefined, <<0>>, <<10>>, <<100>>}

Emails == {Undefined, <<"a@b.c">>, <<"invalid-email">>}

Phones == {Undefined, <<"555-123-4567">>, <<"123">>}

Notes == {Undefined, <<Chars(1001)>>}

\* a new player (no id), or an update of the player with id 1 or 2
ValidatedPlayers ==
  LET fields == [name : PlayerNames, jerseyNumber : JerseyNumbers, email : Emails,
                 phone : Phones, notes : Notes]
  IN fields \cup {Spread(f, [id |-> id]) : f \in fields, id \in 1..2}

\* the teams handed to validateTeam: name and description, each set or missing
ValidatedTeams ==
  LET names == {"A", "", " ", Chars(101)}
      descriptions == {Undefined, <<"">>, <<"d">>, <<Chars(501)>>}
  IN [name : names, description : descriptions] \cup [description : descriptions]

\* the players and rosters handed to sortPlayers, filterPlayers, calculateTeamStats
QueryPlayers ==
  { [id |-> 1, name |-> "Alice", isActive |-> TRUE, dateAdded |-> 1, jerseyNumber |-> <<7>>,
     position |-> <<"Forward">>, email |-> <<"alice@example.com">>],
    [id |-> 2, name |-> "Bob", isActive |-> TRUE, dateAdded |-> 2, jerseyNumber |-> Undefined,
     position |-> <<"Defense">>],
    [id |-> 3, name |-> "Charlie", isActive |-> FALSE, dateAdded |-> 3, jerseyNumber |-> <<3>>,
     position |-> <<"Forward">>, notes |-> <<"Forward line">>],
    [id |-> 4, name |-> "Bob", isActive |-> FALSE, dateAdded |-> 4] }

QueryRosters ==
  {r \in UNION {[1..n -> QueryPlayers] : n \in 0..3} :
     \A i, j \in 1..Len(r) : r[i] = r[j] => i = j}

SortByInputs == {"name", "position", "jerseyNumber", "dateAdded"}

SortOrders == {"asc", "desc"}

FilterInputs ==
  [isActive : {Undefined, <<TRUE>>, <<FALSE>>},
   position : {Undefined, <<"">>, <<"Forward">>},
   searchTerm : {Undefined, <<"">>, <<"for">>, <<"FOR ">>, <<"alice@example">>}]

\* the medium accepts a write, or rejects it (quota) while the fault budget lasts
WriteOutcomes == IF faults < MaxFaults THEN BOOLEAN ELSE {TRUE}

\* ---------------------------------------------------------------- the layer as a state machine
NoCall ==
  [op |-> "none", id |-> 0, pid |-> 0, arg |-> <<>>, pre |-> <<>>,
   ret |-> Null, threw |-> FALSE, saved |-> FALSE, wrote |-> FALSE]

\* wrote: setItem was attempted and the medium accepted it
Call(op, id, pid, arg, ret, threw, saved, wrote) ==
  [op |-> op, id |-> id, pid |-> pid, arg |-> arg, pre |-> <<>>,
   ret |-> ret, threw |-> threw, saved |-> saved, wrote |-> wrote]

\* a load also records the in-memory collection it replaced
Load(op, pre, threw) ==
  [op |-> op, id |-> 0, pid |-> 0, arg |-> <<>>, pre |-> pre,
   ret |-> Null, threw |-> threw, saved |-> FALSE, wrote |-> FALSE]

OtherTab == Call("otherTab", 0, 0, <<>>, Null, FALSE, FALSE, FALSE)

\* one call of a TeamProvider operation with result r
Apply(op, id, pid, arg, wok, r) ==
  /\ blob' = r.blob
  /\ teams' = r.teams
  /\ nextId' = r.nextId
  /\ last' = Call(op, id, pid, arg, r.ret, r.threw, r.saved, r.saved /\ wok)
  /\ faults' = IF r.saved /\ ~wok THEN faults + 1 ELSE faults
  /\ UNCHANGED <<loading, mounted, writers>>

Init ==
  /\ blob = Absent
  /\ teams = <<>>
  /\ loading = TRUE
  /\ mounted = FALSE
  /\ nextId = 0
  /\ faults = 0
  /\ last = NoCall
  /\ writers = [w \in Writers |-> Idle]

\* useEffect(() => { loadTeams(); }, [])
Mount ==
  /\ ~mounted
  /\ LET r == loadTeams(blob, teams)
     IN /\ teams' = r.teams
        /\ loading' = r.loading
        /\ last' = Load("load", teams, r.threw)
  /\ mounted' = TRUE
  /\ UNCHANGED <<blob, nextId, faults, writers>>

RefreshData ==
  /\ mounted
  /\ LET r == loadTeams(blob, teams)
     IN /\ teams' = r.teams
        /\ loading' = r.loading
        /\ last' = Load("refreshData", teams, r.threw)
  /\ UNCHANGED <<blob, mounted, nextId, faults, writers>>

CreateTeam ==
  /\ mounted /\ nextId < MaxIds
  /\ \E teamData \in TeamDataInputs, wok \in WriteOutcomes :
       Apply("createTeam", 0, 0, teamData, wok,
             createTeam(blob, teams, nextId, teamData, Now(nextId), wok))

UpdateTeam ==
  /\ mounted
  /\ \E id \in TeamIds, updates \in TeamUpdates, wok \in WriteOutcomes :
       Apply("updateTeam", id, 0, updates, wok,
             updateTeam(blob, teams, nextId, id, updates, Now(nextId), wok))

DeleteTeam ==
  /\ mounted
  /\ \E id \in TeamIds, wok \in WriteOutcomes :
       Apply("deleteTeam", id, 0, <<>>, wok,
             deleteTeam(blob, teams, nextId, id, Now(nextId), wok))

AddPlayer ==
  /\ mounted /\ nextId < MaxIds
  /\ \E teamId \in TeamIds, playerData \in PlayerDataInputs, wok \in WriteOutcomes :
       Apply("addPlayer", teamId, 0, playerData, wok,
             addPlayer(blob, teams, nextId, teamId, playerData, Now(nextId), wok))

UpdatePlayer ==
  /\ mounted
  /\ \E teamId \in TeamIds, playerId \in PlayerIds, updates \in PlayerUpdates,
        wok \in WriteOutcomes :
       Apply("updatePlayer", teamId, playerId, updates, wok,
             updatePlayer(blob, teams, nextId, teamId, playerId, updates, Now(nextId), wok))

RemovePlayer ==
  /\ mounted
  /\ \E teamId \in TeamIds, playerId \in PlayerIds, wok \in WriteOutcomes :
       Apply("removePlayer", teamId, playerId, <<>>, wok,
             removePlayer(blob, teams, nextId, teamId, playerId, Now(nextId), wok))

\* another tab (a second TeamProvider over the same key) updates or deletes a team
OtherTabUpdateTeam ==
  /\ faults < MaxFaults
  /\ ~ReadThrows(blob)
  /\ \E id \in TeamIds, updates \in OtherTabUpdates :
       /\ getTeamById(blob, id) # Null
       /\ blob' = updateTeam(blob, <<>>, 0, id, updates, Now(nextId), TRUE).blob
  /\ last' = OtherTab
  /\ faults' = faults + 1
  /\ UNCHANGED <<teams, loading, mounted, nextId, writers>>

OtherTabDeleteTeam ==
  /\ faults < MaxFaults
  /\ ~ReadThrows(blob)
  /\ \E id \in TeamIds :
       /\ getTeamById(blob, id) # Null
       /\ blob' = deleteTeam(blob, <<>>, 0, id, Now(nextId), TRUE).blob
  /\ last' = OtherTab
  /\ faults' = faults + 1
  /\ UNCHANGED <<teams, loading, mounted, nextId, writers>>

\* clearAllData(): localStorage.removeItem(STORAGE_KEY)
ClearAllData ==
  /\ faults < MaxFaults
  /\ blob.kind \notin {"absent", "nowindow", "unreadable"}
  /\ blob' = Absent
  /\ last' = OtherTab
  /\ faults' = faults + 1
  /\ UNCHANGED <<teams, loading, mounted, nextId, writers>>

\* something else on the origin leaves text under the key that is no document
ForeignContent ==
  /\ faults < MaxFaults
  /\ \E c \in {Garbage, NullDoc} : blob # c /\ blob' = c
  /\ last' = OtherTab
  /\ faults' = faults + 1
  /\ UNCHANGED <<teams, loading, mounted, nextId, writers>>

Environment ==
  \/ OtherTabUpdateTeam
  \/ OtherTabDeleteTeam
  \/ ClearAllData
  \/ ForeignContent

\* the provider driven through its team operations
NextTeams ==
  \/ Mount
  \/ RefreshData
  \/ CreateTeam
  \/ UpdateTeam
  \/ DeleteTeam
  \/ Environment

SpecTeams == Init /\ [][NextTeams]_vars

\* the provider's loads, among creations, updates and the environment's writes
NextLoads ==
  \/ Mount
  \/ RefreshData
  \/ CreateTeam
  \/ UpdateTeam
  \/ Environment

\* React runs the mount effect of a rendered provider: the initial load happens
SpecLoads == Init /\ [][NextLoads]_vars /\ WF_mounted(Mount)

\* the provider driven through its player operations
NextPlayers ==
  \/ Mount
  \/ RefreshData
  \/ CreateTeam
  \/ AddPlayer
  \/ UpdatePlayer
  \/ RemovePlayer
  \/ Environment

SpecPlayers == Init /\ [][NextPlayers]_vars

\* the players page renders its form and its list for a team the memory holds
HandleAddPlayer ==
  /\ mounted /\ nextId < MaxRosterIds
  /\ \E teamId \in IdsOf(teams), nameText \in NameTexts, jerseyText \in JerseyTexts,
        wok \in WriteOutcomes :
       LET formData == PlayerForm_formData(nameText, jerseyText)
           team == getTeam(teams, teamId)[1]
       IN Apply("handleAddPlayer", teamId, 0, formData, wok,
            PlayerForm_handleSubmit(blob, teams, nextId, formData,
              existingJerseyNumbers(team, 0),
              handleAddPlayer(blob, teams, nextId, teamId, formData, Now(nextId), wok)))

HandleEditPlayer ==
  /\ mounted
  /\ \E teamId \in IdsOf(teams), nameText \in NameTexts, jerseyText \in JerseyTexts,
        wok \in WriteOutcomes :
       \E editingId \in IdsOf(getTeam(teams, teamId)[1].players) :
         LET formData == PlayerForm_formData(nameText, jerseyText)
             team == getTeam(teams, teamId)[1]
         IN Apply("handleEditPlayer", teamId, editingId, formData, wok,
              PlayerForm_handleSubmit(blob, teams, nextId, formData,
                existingJerseyNumbers(team, editingId),
                handleEditPlayer(blob, teams, nextId, teamId, editingId, formData,
                                 Now(nextId), wok)))

HandleDeletePlayer ==
  /\ mounted
  /\ \E teamId \in IdsOf(teams), wok \in WriteOutcomes :
       \E playerId \in IdsOf(getTeam(teams, teamId)[1].players) :
         Apply("handleDeletePlayer", teamId, playerId, <<>>, wok,
               handleDeletePlayer(blob, teams, nextId, teamId, playerId, Now(nextId), wok))

\* PlayerList: onTogglePlayerStatus(player.id, !player.isActive)
HandleTogglePlayerStatus ==
  /\ mounted
  /\ \E teamId \in IdsOf(teams), wok \in WriteOutcomes :
       \E playerId \in IdsOf(getTeam(teams, teamId)[1].players) :
         LET isActive == ~getPlayer(teams, teamId, playerId)[1].isActive
         IN Apply("handleTogglePlayerStatus", teamId, playerId, [isActive |-> isActive], wok,
                  handleTogglePlayerStatus(blob, teams, nextId, teamId, playerId, isActive,
                                           Now(nextId), wok))

\* the profile page renders PlayerProfile for a player the memory holds
HandleSave ==
  /\ mounted
  /\ \E teamId \in IdsOf(teams), nameText \in NameTexts, jerseyText \in JerseyTexts,
        isActive \in BOOLEAN, wok \in WriteOutcomes :
       \E playerId \in IdsOf(getTeam(teams, teamId)[1].players) :
         LET formData == [name |-> nameText, jerseyNumber |-> jerseyText,
                          isActive |-> isActive]
         IN Apply("handleSave", teamId, playerId, formData, wok,
                  PlayerProfile_handleSave(blob, teams, nextId, teamId, playerId, formData,
                                           Now(nextId), wok))

\* the provider driven through the roster pages
NextRoster ==
  \/ Mount
  \/ CreateTeam
  \/ HandleAddPlayer
  \/ HandleEditPlayer
  \/ HandleDeletePlayer
  \/ HandleTogglePlayerStatus
  \/ HandleSave

SpecRoster == Init /\ [][NextRoster]_vars

\* the create page behind TeamForm
HandleSubmitTeam ==
  /\ mounted /\ nextId < MaxIds
  /\ \E nameText \in TeamNameTexts, descriptionText \in DescriptionTexts,
        wok \in WriteOutcomes :
       LET formData == TeamFormData(nameText, descriptionText)
       IN Apply("handleSubmit", 0, 0, formData, wok,
                TeamForm_handleSubmit(blob, teams, nextId, formData, Now(nextId), wok))

\* the detail page renders its edit fields for a team the memory holds
HandleSaveEdit ==
  /\ mounted
  /\ \E teamId \in IdsOf(teams), nameText \in TeamNameTexts,
        descriptionText \in DescriptionTexts, wok \in WriteOutcomes :
       LET editData == TeamFormData(nameText, descriptionText)
       IN Apply("handleSaveEdit", teamId, 0, editData, wok,
                handleSaveEdit(blob, teams, nextId, teamId, editData, Now(nextId), wok))

HandleToggleTeamStatus ==
  /\ mounted
  /\ \E teamId \in IdsOf(teams), wok \in WriteOutcomes :
       Apply("handleToggleTeamStatus", teamId, 0, <<>>, wok,
             handleToggleTeamStatus(blob, teams, nextId, teamId, Now(nextId), wok))

\* the provider driven through the team pages
NextTeamPages ==
  \/ Mount
  \/ HandleSubmitTeam
  \/ HandleSaveEdit
  \/ HandleToggleTeamStatus

SpecTeamPages == Init /\ [][NextTeamPages]_vars

\* updateTeam / updatePlayer with a partial that carries the creation date
UpdateTeamDate ==
  /\ mounted
  /\ \E id \in TeamIds, updates \in TeamDateUpdates, wok \in WriteOutcomes :
       Apply("updateTeam", id, 0, updates, wok,
             updateTeam(blob, teams, nextId, id, updates, Now(nextId), wok))

UpdatePlayerDate ==
  /\ mounted
  /\ \E teamId \in TeamIds, playerId \in PlayerIds, updates \in PlayerDateUpdates,
        wok \in WriteOutcomes :
       Apply("updatePlayer", teamId, playerId, updates, wok,
             updatePlayer(blob, teams, nextId, teamId, playerId, updates, Now(nextId), wok))

\* the provider driven through the operations that leave a team or a player in place
NextDates ==
  \/ Mount
  \/ RefreshData
  \/ CreateTeam
  \/ UpdateTeam
  \/ UpdateTeamDate
  \/ AddPlayer
  \/ UpdatePlayer
  \/ UpdatePlayerDate
  \/ RemovePlayer

SpecDates == Init /\ [][NextDates]_vars

\* updateTeam / updatePlayer with a partial that carries an id
UpdateTeamId ==
  /\ mounted
  /\ \E id \in TeamIds, updates \in TeamIdUpdates, wok \in WriteOutcomes :
       Apply("updateTeam", id, 0, updates, wok,
             updateTeam(blob, teams, nextId, id, updates, Now(nextId), wok))

UpdatePlayerId ==
  /\ mounted
  /\ \E teamId \in TeamIds, playerId \in PlayerIds, updates \in PlayerIdUpdates,
        wok \in WriteOutcomes :
       Apply("updatePlayer", teamId, playerId, updates, wok,
             updatePlayer(blob, teams, nextId, teamId, playerId, updates, Now(nextId), wok))

\* the provider driven through the operations that add, remove or re-identify
NextIds ==
  \/ Mount
  \/ RefreshData
  \/ CreateTeam
  \/ UpdateTeamId
  \/ DeleteTeam
  \/ AddPlayer
  \/ UpdatePlayerId
  \/ RemovePlayer

SpecIds == Init /\ [][NextIds]_vars

\* storage.saveTeam(team) followed by storage.getTeamById(team.id); ret is what
\* getTeamById returned, threw whether an error left either call
StoreSaveTeam ==
  /\ \E team \in TeamInputs, wok \in WriteOutcomes :
       LET threw == ReadThrows(blob)
           after == IF threw THEN blob ELSE storage_saveTeam(blob, team, Now(nextId), wok)
       IN /\ blob' = after
          /\ last' = Call("saveTeam", team.id, 0, team,
                          IF threw THEN Null ELSE getTeamById(after, team.id),
                          threw, ~threw, ~threw /\ Accepts(blob, wok))
          /\ faults' = IF ~threw /\ ~wok THEN faults + 1 ELSE faults
  /\ UNCHANGED <<teams, loading, mounted, nextId, writers>>

\* storage.deleteTeam(id)
StoreDeleteTeam ==
  /\ ~ReadThrows(blob)
  /\ \E id \in IdsOf(StoredTeams), wok \in WriteOutcomes :
       /\ blob' = storage_deleteTeam(blob, id, Now(nextId), wok)
       /\ last' = Call("storeDeleteTeam", id, 0, <<>>, Null, FALSE, TRUE, Accepts(blob, wok))
       /\ faults' = IF ~wok THEN faults + 1 ELSE faults
  /\ UNCHANGED <<teams, loading, mounted, nextId, writers>>

\* storage.getAllTeams() and storage.getTeamById(id): pre is what getAllTeams
\* returned, ret what getTeamById returned, threw whether an error left either
StoreRead ==
  /\ \E id \in TeamIds :
       last' = [Load("read", IF ReadThrows(blob) THEN <<>> ELSE getAllTeams(blob),
                     ReadThrows(blob))
                EXCEPT !.id = id,
                       !.ret = IF ReadThrows(blob) THEN Null ELSE getTeamById(blob, id)]
  /\ UNCHANGED <<blob, teams, loading, mounted, nextId, faults, writers>>

\* the store is used where there is no window (a server render), or the browser
\* starts to refuse access to localStorage
MediumUnavailable ==
  /\ faults < MaxFaults
  /\ \E c \in {NoWindow, Unreadable} : blob # c /\ blob' = c
  /\ last' = OtherTab
  /\ faults' = faults + 1
  /\ UNCHANGED <<teams, loading, mounted, nextId, writers>>

\* the store driven directly
NextStore ==
  \/ StoreSaveTeam
  \/ StoreDeleteTeam
  \/ StoreRead
  \/ MediumUnavailable
  \/ ClearAllData
  \/ ForeignContent

SpecStore == Init /\ [][NextStore]_vars

\* a writer starts saveTeam / deleteTeam: getStorageData(); on the text "null" the
\* call ends in a TypeError before it writes
WriterRead ==
  /\ \E w \in Writers : \E call \in WriterCalls(w) :
       /\ writers[w] = Idle
       /\ writers' = IF ReadThrows(blob) THEN writers
                     ELSE [writers EXCEPT ![w] = Reading(call, getStorageData(blob, Now(nextId)))]
       /\ last' = Call("writerRead", call.id, 0, [writer |-> w, call |-> call], Null,
                       ReadThrows(blob), FALSE, FALSE)
  /\ UNCHANGED <<blob, teams, loading, mounted, nextId, faults>>

\* the writer finishes its call: saveStorageData(data); pre is the collection the
\* store held just before
WriterWrite ==
  /\ \E w \in Writers, wok \in WriteOutcomes :
       /\ writers[w].at = "read"
       /\ blob' = WriteStep(blob, writers[w].data, writers[w].call, Now(nextId), wok)
       /\ writers' = [writers EXCEPT ![w] = Idle]
       /\ last' = [Call("writerWrite", writers[w].call.id, 0,
                        [writer |-> w, call |-> writers[w].call, data |-> writers[w].data],
                        Null, FALSE, TRUE, Accepts(blob, wok))
                   EXCEPT !.pre = StoredTeams]
       /\ faults' = IF ~wok THEN faults + 1 ELSE faults
  /\ UNCHANGED <<teams, loading, mounted, nextId>>

\* two tabs writing to the one key
NextWriters ==
  \/ WriterRead
  \/ WriterWrite
  \/ ClearAllData
  \/ ForeignContent

SpecWriters == Init /\ [][NextWriters]_vars

\* another tab renames a player: its updatePlayerInTeam lands in the store
OtherTabUpdatePlayer ==
  /\ faults < MaxFaults
  /\ ~ReadThrows(blob)
  /\ \E teamId \in IdsOf(StoredTeams) :
       \E playerId \in PlayerIdsOfTeam(StoredTeams, teamId) :
         LET stored == Find(getTeamById(blob, teamId)[1].players, playerId)[1]
         IN blob' = updatePlayerInTeam(blob, teamId, playerId,
                                       Spread(stored, [name |-> "Z"]), Now(nextId), TRUE).blob
  /\ last' = OtherTab
  /\ faults' = faults + 1
  /\ UNCHANGED <<teams, loading, mounted, nextId, writers>>

\* the provider's player updates, while another tab writes to the same players
NextPlayerMerge ==
  \/ Mount
  \/ RefreshData
  \/ CreateTeam
  \/ AddPlayer
  \/ UpdatePlayer
  \/ OtherTabUpdatePlayer

SpecPlayerMerge == Init /\ [][NextPlayerMerge]_vars

\* the provider driven through every operation over a medium that fails
NextMedium ==
  \/ Mount
  \/ RefreshData
  \/ CreateTeam
  \/ UpdateTeam
  \/ DeleteTeam
  \/ AddPlayer
  \/ UpdatePlayer
  \/ RemovePlayer
  \/ MediumUnavailable
  \/ ForeignContent

SpecMedium == Init /\ [][NextMedium]_vars

\* getTeam(id)
GetTeam ==
  /\ mounted
  /\ \E id \in TeamIds :
       last' = Call("getTeam", id, 0, <<>>, getTeam(teams, id), FALSE, FALSE, FALSE)
  /\ UNCHANGED <<blob, teams, loading, mounted, nextId, faults, writers>>

\* lookups in memory while another tab changes the store
NextLookup ==
  \/ Mount
  \/ CreateTeam
  \/ GetTeam
  \/ OtherTabUpdateTeam
  \/ OtherTabDeleteTeam

SpecLookup == Init /\ [][NextLookup]_vars

\* a caller holds the arguments of a validator call
Arguments(op, arg) == Call(op, 0, 0, arg, Null, FALSE, FALSE, FALSE)

InitValidate ==
  /\ blob = Absent
  /\ teams = <<>>
  /\ loading = TRUE
  /\ mounted = FALSE
  /\ nextId = 0
  /\ faults = 0
  /\ writers = [w \in Writers |-> Idle]
  /\ last \in
       {Arguments("playerArguments", [player |-> player, existingPlayers |-> existingPlayers]) :
          player \in ValidatedPlayers, existingPlayers \in Rosters}
       \cup {Arguments("teamArguments", [team |-> team]) : team \in ValidatedTeams}

\* validatePlayer(player, existingPlayers): arg is the input, ret what it returned
ValidatePlayer ==
  /\ last.op = "playerArguments"
  /\ last' = Call("validatePlayer", 0, 0, last.arg,
                  validatePlayer(last.arg.player, last.arg.existingPlayers),
                  FALSE, FALSE, FALSE)
  /\ UNCHANGED <<blob, teams, loading, mounted, nextId, faults, writers>>

\* validateTeam(team)
ValidateTeam ==
  /\ last.op = "teamArguments"
  /\ last' = Call("validateTeam", 0, 0, last.arg, validateTeam(last.arg.team),
                  FALSE, FALSE, FALSE)
  /\ UNCHANGED <<blob, teams, loading, mounted, nextId, faults, writers>>

\* the validators called on their own
NextValidate ==
  \/ ValidatePlayer
  \/ ValidateTeam

SpecValidate == InitValidate /\ [][NextValidate]_vars

InitQuery ==
  /\ blob = Absent
  /\ teams = <<>>
  /\ loading = TRUE
  /\ mounted = FALSE
  /\ nextId = 0
  /\ faults = 0
  /\ writers = [w \in Writers |-> Idle]
  /\ last \in
       {Arguments("sortArguments", [players |-> r, sortBy |-> sortBy, sortOrder |-> sortOrder]) :
          r \in QueryRosters, sortBy \in SortByInputs, sortOrder \in SortOrders}
       \cup {Arguments("filterArguments", [players |-> r, filters |-> filters]) :
               r \in QueryRosters, filters \in FilterInputs}
       \cup {Arguments("statsArguments", [team |-> [id |-> 1, name |-> "A", isActive |-> TRUE,
                                                     dateCreated |-> 1, players |-> r]]) :
               r \in QueryRosters}

\* sortPlayers(players, sortBy, sortOrder)
SortPlayers ==
  /\ last.op = "sortArguments"
  /\ last' = Call("sortPlayers", 0, 0, last.arg,
                  sortPlayers(last.arg.players, last.arg.sortBy, last.arg.sortOrder),
                  FALSE, FALSE, FALSE)
  /\ UNCHANGED <<blob, teams, loading, mounted, nextId, faults, writers>>

\* filterPlayers(players, filters)
FilterPlayers ==
  /\ last.op = "filterArguments"
  /\ last' = Call("filterPlayers", 0, 0, last.arg,
                  filterPlayers(last.arg.players, last.arg.filters), FALSE, FALSE, FALSE)
  /\ UNCHANGED <<blob, teams, loading, mounted, nextId, faults, writers>>

\* calculateTeamStats(team)
CalculateTeamStats ==
  /\ last.op = "statsArguments"
  /\ last' = Call("calculateTeamStats", 0, 0, last.arg, calculateTeamStats(last.arg.team),
                  FALSE, FALSE, FALSE)
  /\ UNCHANGED <<blob, teams, loading, mounted, nextId, faults, writers>>

\* the query functions called on their own
NextQuery ==
  \/ SortPlayers
  \/ FilterPlayers
  \/ CalculateTeamStats

SpecQuery == InitQuery /\ [][NextQuery]_vars

Next ==
  \/ NextTeamPages
  \/ NextLoads
  \/ NextTeams
  \/ NextPlayers
  \/ NextRoster
  \/ NextStore
  \/ NextWriters
  \/ NextDates
  \/ NextIds
  \/ NextValidate
  \/ NextQuery
  \/ NextPlayerMerge
  \/ NextMedium
  \/ NextLookup

Spec == Init /\ [][Next]_vars

\* ---------------------------------------------------------------- reading the state
\* a === b field by field, an optional key that is missing reading as undefined
SamePlayer(p, q) ==
  /\ p.id = q.id /\ p.name = q.name /\ p.isActive = q.isActive /\ p.dateAdded = q.dateAdded
  /\ \A k \in PlayerOptional : Get(p, k) = Get(q, k)

SamePlayers(ps, qs) ==
  /\ Len(ps) = Len(qs)
  /\ \A i \in 1..Len(ps) : SamePlayer(ps[i], qs[i])

SameTeam(t, u) ==
  /\ t.id = u.id /\ t.name = u.name /\ t.isActive = u.isActive
  /\ t.dateCreated = u.dateCreated
  /\ \A k \in TeamOptional : Get(t, k) = Get(u, k)
  /\ SamePlayers(t.players, u.players)

KnownIds == IdsOf(teams) \cup IdsOf(StoredTeams)

\* ---------------------------------------------------------------- claims, roster pages
ActiveJerseysUnique(ps) ==
  \A i, j \in 1..Len(ps) :
    (i # j /\ ps[i].isActive /\ ps[j].isActive /\ Get(ps[i], "jerseyNumber") # Undefined)
      => Get(ps[i], "jerseyNumber") # Get(ps[j], "jerseyNumber")

\* C1: in every state the roster flows reach, no team, in memory or in the store,
\* holds two players that are both active and wear the same jersey number.
C1_ActiveJerseysUnique ==
  /\ \A i \in 1..Len(teams) : ActiveJerseysUnique(teams[i].players)
  /\ \A i \in 1..Len(StoredTeams) : ActiveJerseysUnique(StoredTeams[i].players)

\* ---------------------------------------------------------------- claims, team pages
\* C14: submitting a team whose name is empty or blank, from the create page or
\* from the edit fields of the detail page, never writes to the store, and no
\* stored team has an empty or blank name.
C14_EmptyNameNeverWritten ==
  /\ [][(last'.op \in {"handleSubmit", "handleSaveEdit"} /\ trim(last'.arg.name) = "")
          => (~last'.saved /\ blob' = blob)]_vars
  /\ [](\A i \in 1..Len(StoredTeams) : trim(StoredTeams[i].name) # "")

\* ---------------------------------------------------------------- claims, entities
\* between two collections, every team found in both keeps its dateCreated and
\* every player found in both under that team keeps its dateAdded
DatesKept(old, new) ==
  \A i \in 1..Len(old), j \in 1..Len(new) :
    old[i].id = new[j].id =>
      /\ new[j].dateCreated = old[i].dateCreated
      /\ \A k \in 1..Len(old[i].players), m \in 1..Len(new[j].players) :
           old[i].players[k].id = new[j].players[m].id
             => new[j].players[m].dateAdded = old[i].players[k].dateAdded

\* C16: no call of updateTeam, updatePlayer, addPlayer, removePlayer or refreshData,
\* whatever partial update it carries, changes the dateCreated of a team or the
\* dateAdded of a player that exists before and after it, in the store or in memory.
C16_DatesWriteOnce ==
  [][last'.op \in {"updateTeam", "updatePlayer", "addPlayer", "removePlayer", "refreshData"}
       => /\ DatesKept(StoredTeams, StoredTeams')
          /\ DatesKept(teams, teams')]_vars

IdsUnique(s) == \A i, j \in 1..Len(s) : s[i].id = s[j].id => i = j

\* C17: in every state the operations reach, no two teams share an id and no two
\* players of one team share an id, in the store's collection and in memory.
C17_IdsUnique ==
  /\ IdsUnique(StoredTeams) /\ IdsUnique(teams)
  /\ \A i \in 1..Len(StoredTeams) : IdsUnique(StoredTeams[i].players)
  /\ \A i \in 1..Len(teams) : IdsUnique(teams[i].players)

\* ---------------------------------------------------------------- claims, validators
\* the players of a roster that are in the way of the validated player's number
Conflicting(player, existingPlayers) ==
  {i \in 1..Len(existingPlayers) :
     /\ Get(player, "jerseyNumber") # Undefined
     /\ ("id" \notin DOMAIN player \/ existingPlayers[i].id # player.id)
     /\ existingPlayers[i].isActive
     /\ Get(existingPlayers[i], "jerseyNumber") = Get(player, "jerseyNumber")}

\* the "already taken" messages among the errors
ConflictMessages(errors, player, existingPlayers) ==
  {i \in 1..Len(errors) :
     \E k \in 1..Len(existingPlayers) :
       /\ Get(player, "jerseyNumber") # Undefined
       /\ errors[i] = TakenBy(player.jerseyNumber[1], existingPlayers[k].name)}

\* C18: validatePlayer reports a jersey conflict exactly when the number is set
\* and some other active player of the roster wears it; the message names the
\* first such player; a player found in the roster never conflicts with itself.
C18_JerseyConflictIff ==
  last.op = "validatePlayer" =>
    LET player == last.arg.player
        existingPlayers == last.arg.existingPlayers
        errors == last.ret.errors
        conflicting == Conflicting(player, existingPlayers)
        first == CHOOSE i \in conflicting : \A k \in conflicting : i <= k
    IN /\ (ConflictMessages(errors, player, existingPlayers) # {}) <=> (conflicting # {})
       /\ conflicting # {} =>
            /\ Cardinality(ConflictMessages(errors, player, existingPlayers)) = 1
            /\ \E i \in 1..Len(errors) :
                 errors[i] = TakenBy(player.jerseyNumber[1], existingPlayers[first].name)
       /\ \A k \in 1..Len(existingPlayers) :
            ("id" \in DOMAIN player /\ existingPlayers[k].id = player.id)
              => k \notin conflicting

\* two active players wear the validated number: the message names the first
C18_Witness ==
  /\ last.op = "validatePlayer"
  /\ Cardinality(Conflicting(last.arg.player, last.arg.existingPlayers)) = 2
  /\ last.arg.existingPlayers[1].name = "P2"
  /\ \E i \in 1..Len(last.ret.errors) : last.ret.errors[i] = TakenBy(10, "P2")

\* C19: against the roster of active P1 and inactive P2, both with number 10,
\* validating a new player with number 10 fails with the message that number 10 is
\* already taken by P1, and validating an update of P2 that keeps number 10 reports
\* no conflict.
C19_ActiveOnlyScenario ==
  (/\ last.op = "validatePlayer"
   /\ last.arg.existingPlayers = <<RosterPlayer(1, 10, TRUE), RosterPlayer(2, 10, FALSE)>>
   /\ last.arg.player.jerseyNumber = <<10>>)
    => LET player == last.arg.player
           errors == last.ret.errors
           takenByP1 == \E i \in 1..Len(errors) : errors[i] = TakenBy(10, "P1")
       IN /\ "id" \notin DOMAIN player => (~last.ret.isValid /\ takenByP1)
          /\ ("id" \in DOMAIN player /\ player.id = 2) =>
               ConflictMessages(errors, player, last.arg.existingPlayers) = {}

\* the rules a player violates, each with the message that reports it
ViolatedPlayerRules(player, existingPlayers) ==
  LET name == IF "name" \in DOMAIN player THEN player.name ELSE ""
      number == Get(player, "jerseyNumber")
      conflicting == Conflicting(player, existingPlayers)
  IN {r \in
       {[rule |-> "name",
         broken |-> trim(name) = "" \/ Len(trim(name)) > 100,
         message |-> IF trim(name) = "" THEN "Player name is required"
                     ELSE "Player name must be 100 characters or less"],
        [rule |-> "email",
         broken |-> Truthy(player, "email") /\ ~isValidEmail(player.email[1]),
         message |-> "Invalid email format"],
        [rule |-> "phone",
         broken |-> Truthy(player, "phone") /\ ~isValidPhone(player.phone[1]),
         message |-> "Invalid phone number format"],
        [rule |-> "jersey range",
         broken |-> number # Undefined /\ number[1] \notin 0..99,
         message |-> "Jersey number must be between 0 and 99"],
        [rule |-> "jersey duplicate",
         broken |-> conflicting # {},
         message |-> IF conflicting = {} THEN ""
                     ELSE TakenBy(number[1],
                            existingPlayers[CHOOSE i \in conflicting :
                                              \A k \in conflicting : i <= k].name)],
        [rule |-> "notes",
         broken |-> Truthy(player, "notes") /\ Len(player.notes[1]) > 1000,
         message |-> "Notes must be 1000 characters or less"]} :
      r.broken}

ViolatedTeamRules(team) ==
  LET name == IF "name" \in DOMAIN team THEN team.name ELSE ""
  IN {r \in
       {[rule |-> "name",
         broken |-> trim(name) = "" \/ Len(trim(name)) > 100,
         message |-> IF trim(name) = "" THEN "Team name is required"
                     ELSE "Team name must be 100 characters or less"],
        [rule |-> "description",
         broken |-> Truthy(team, "description") /\ Len(team.description[1]) > 500,
         message |-> "Team description must be 500 characters or less"]} :
      r.broken}

\* the errors hold exactly one message for each violated rule
OnePerRule(errors, violated) ==
  /\ Len(errors) = Cardinality(violated)
  /\ \A r \in violated : \E i \in 1..Len(errors) : errors[i] = r.message

\* C20: validateTeam and validatePlayer never throw and never stop at the first
\* error: the errors hold one message for each violated rule, whatever other rules
\* are violated, and isValid is true exactly when the errors are empty.
C20_OneMessagePerRule ==
  /\ last.op = "validatePlayer" =>
       /\ ~last.threw
       /\ OnePerRule(last.ret.errors,
                     ViolatedPlayerRules(last.arg.player, last.arg.existingPlayers))
       /\ last.ret.isValid <=> (last.ret.errors = <<>>)
  /\ last.op = "validateTeam" =>
       /\ ~last.threw
       /\ OnePerRule(last.ret.errors, ViolatedTeamRules(last.arg.team))
       /\ last.ret.isValid <=> (last.ret.errors = <<>>)

\* a player that violates all six rules at once
C20_Witness ==
  /\ last.op = "validatePlayer"
  /\ Cardinality(ViolatedPlayerRules(last.arg.player, last.arg.existingPlayers)) = 6
  /\ Len(last.ret.errors) = 6
  /\ ~last.ret.isValid

\* ---------------------------------------------------------------- claims, queries
\* C21: sortPlayers by jerseyNumber returns, for either order, every player without
\* a number after every player with one, and the numbered players in ascending,
\* respectively descending, order of their numbers.
C21_UnnumberedSortLast ==
  (last.op = "sortPlayers" /\ last.arg.sortBy = "jerseyNumber") =>
    \A i, j \in 1..Len(last.ret) :
      i < j =>
        LET a == Get(last.ret[i], "jerseyNumber")
            b == Get(last.ret[j], "jerseyNumber")
        IN /\ a = Undefined => b = Undefined
           /\ (a # Undefined /\ b # Undefined) =>
                IF last.arg.sortOrder = "asc" THEN a[1] <= b[1] ELSE a[1] >= b[1]

\* a player passes every predicate the filters supply; term is the text looked for
Passes(p, filters, term) ==
  /\ Get(filters, "isActive") # Undefined => p.isActive = filters.isActive[1]
  /\ Truthy(filters, "position") => Get(p, "position") = filters.position
  /\ Truthy(filters, "searchTerm") =>
       \E k \in {"name", "email", "position", "notes"} :
         LET text == IF k = "name" THEN <<p.name>> ELSE Get(p, k)
         IN text # Undefined /\ text[1] # "" /\ includes(toLowerCase(text[1]), term)

\* C22: filterPlayers returns exactly the players, in input order, that satisfy
\* every supplied predicate, the searchTerm predicate being that name, email,
\* position or notes contains the term as given, letter case aside.
C22_FilterIsConjunction ==
  last.op = "filterPlayers" =>
    LET filters == last.arg.filters
        term == IF Truthy(filters, "searchTerm") THEN toLowerCase(filters.searchTerm[1]) ELSE ""
    IN last.ret = SelectSeq(last.arg.players, LAMBDA p : Passes(p, filters, term))

\* C22 (amended): as C22, the term being looked for after the blanks around it
\* are removed.
C22_FilterIsConjunctionTrimmed ==
  last.op = "filterPlayers" =>
    LET filters == last.arg.filters
        term == IF Truthy(filters, "searchTerm")
                THEN trim(toLowerCase(filters.searchTerm[1])) ELSE ""
    IN last.ret = SelectSeq(last.arg.players, LAMBDA p : Passes(p, filters, term))

\* two active players and an inactive one, filtered by isActive and a term: the
\* one active player that matches is returned
C22_Witness ==
  /\ last.op = "filterPlayers"
  /\ last.arg.filters.isActive = <<TRUE>>
  /\ last.arg.filters.searchTerm = <<"FOR ">>
  /\ Len(last.arg.players) = 3
  /\ \A i \in 1..3 : last.arg.players[i].id = i
  /\ Len(last.ret) = 1 /\ last.ret[1].id = 1

\* the sum of the counts of a positionCounts object
RECURSIVE SumCounts(_, _)
SumCounts(counts, keys) ==
  IF keys = {} THEN 0
  ELSE LET k == CHOOSE k \in keys : TRUE
       IN counts[k] + SumCounts(counts, keys \ {k})

\* C23: calculateTeamStats counts all players, splits them into active and
\* inactive, leaves positionCounts out exactly when the team has no players, and
\* otherwise maps each position some player holds to the number of players, active
\* or not, that hold it, the counts adding up to the players whose position is set.
C23_StatsCountPlayers ==
  last.op = "calculateTeamStats" =>
    LET players == last.arg.team.players
        stats == last.ret
        positioned == {i \in 1..Len(players) : Truthy(players[i], "position")}
    IN /\ stats.totalPlayers = Len(players)
       /\ stats.activePlayers + stats.inactivePlayers = stats.totalPlayers
       /\ stats.activePlayers = Cardinality({i \in 1..Len(players) : players[i].isActive})
       /\ (stats.positionCounts = Undefined) <=> (Len(players) = 0)
       /\ stats.positionCounts # Undefined =>
            LET counts == stats.positionCounts[1]
            IN /\ DOMAIN counts = {players[i].position[1] : i \in positioned}
               /\ \A position \in DOMAIN counts :
                    counts[position] =
                      Cardinality({i \in positioned : players[i].position[1] = position})
               /\ SumCounts(counts, DOMAIN counts) = Cardinality(positioned)

\* two active players and an inactive one: Forward is counted twice, once for the
\* inactive player, and Defense once
C23_Witness ==
  /\ last.op = "calculateTeamStats"
  /\ last.ret.totalPlayers = 3 /\ last.ret.activePlayers = 2 /\ last.ret.inactivePlayers = 1
  /\ last.ret.positionCounts = <<[position \in {"Forward", "Defense"} |->
                                   IF position = "Forward" THEN 2 ELSE 1]>>

\* ---------------------------------------------------------------- claims, store
\* C15: when a writer has read the content, another writer's write lands, and the
\* first writer then writes, the content afterwards is what the later writer's call
\* makes of the content it had read: the other writer's change is gone, and no
\* error leaves either call.
C15_LaterWriteWins ==
  [][(last'.op = "writerWrite" /\ last'.wrote)
       => /\ blob' = Atomic(last'.arg.data, last'.arg.call, Now(nextId), TRUE)
          /\ ~last'.threw]_vars

\* B saved a team over content it had read before A's team landed: A's team is gone
C15_Witness ==
  /\ last.op = "writerWrite" /\ last.wrote /\ ~last.threw
  /\ last.arg.writer = "B" /\ last.arg.call.op = "saveTeam"
  /\ \E i \in 1..Len(last.pre) :
       /\ last.pre[i].name = "A"
       /\ last.pre[i].id \notin IdsOf(last.arg.data.teams)
       /\ last.pre[i].id \notin IdsOf(StoredTeams)
  /\ \E i \in 1..Len(StoredTeams) : StoredTeams[i].name = "B"

\* C2: whatever the store held before, saveTeam(t) followed by getTeamById(t.id)
\* returns a team equal to t in every field, its players included (a write the
\* medium rejects aside).
C2_StoreRoundTrip ==
  [][(last'.op = "saveTeam" /\ ~(last'.saved /\ ~last'.wrote))
       => (/\ ~last'.threw
           /\ last'.ret # Null
           /\ SameTeam(last'.ret[1], last'.arg))]_vars

\* C12: without a window, when getItem throws, when the key holds nothing and
\* when its text cannot be parsed, getAllTeams returns [] and getTeamById returns
\* null, and no error leaves either.
C12_UnavailableReadsEmpty ==
  (last.op = "read" /\ blob.kind \in {"nowindow", "unreadable", "absent", "garbage"})
    => (~last.threw /\ last.pre = <<>> /\ last.ret = Null)

C12_Witness ==
  /\ last.op = "read" /\ ~last.threw /\ last.pre = <<>>
  /\ blob.kind = "unreadable"

\* new is old with team put in: in place of the first team with its id, else at the end
Upserted(old, new, team) ==
  LET i == FindIndex(old, team.id)
  IN IF i > 0
     THEN /\ Len(new) = Len(old)
          /\ SameTeam(new[i], team)
          /\ \A j \in 1..Len(old) : j # i => new[j] = old[j]
     ELSE /\ Len(new) = Len(old) + 1
          /\ SameTeam(new[Len(new)], team)
          /\ \A j \in 1..Len(old) : new[j] = old[j]

C3_DeleteMissingReturnsFalse ==
  [][(last'.op = "deleteTeam" /\ last'.id \notin KnownIds)
       => (last'.ret = FALSE /\ Len(teams') = Len(teams))]_vars

\* C4: when the store throws during deleteTeam(id), deleteTeam returns false, the
\* error does not leave it, and the in-memory collection is what it was.
C4_DeleteFailureLeavesMemory ==
  [][(last'.op = "deleteTeam" /\ ReadThrows(blob))
       => (last'.ret = FALSE /\ ~last'.threw /\ teams' = teams)]_vars

C4_Witness ==
  /\ last.op = "deleteTeam" /\ last.ret = FALSE
  /\ ReadThrows(blob)
  /\ last.id \in IdsOf(teams)

UpdateMerges ==
  LET stored == getTeamById(blob, last'.id)[1]
      merged == Spread(stored, last'.arg)
  IN /\ last'.ret = <<merged>>
     /\ \A k \in DOMAIN stored \ DOMAIN last'.arg : merged[k] = stored[k]
     /\ \A k \in DOMAIN last'.arg : merged[k] = last'.arg[k]
     /\ last'.saved
     /\ Len(teams') = Len(teams)
     /\ \A i \in 1..Len(teams) :
          teams'[i] = IF teams[i].id = last'.id THEN merged ELSE teams[i]

\* the store holds the record updateTeam returned
UpdatePersisted ==
  /\ ~ReadThrows(blob')
  /\ getTeamById(blob', last'.ret[1].id) # Null
  /\ SameTeam(getTeamById(blob', last'.ret[1].id)[1], last'.ret[1])

UpdateFound ==
  last'.op = "updateTeam" /\ ~ReadThrows(blob) /\ getTeamById(blob, last'.id) # Null

C7_CreateNeverFails ==
  [][last'.op = "createTeam" =>
       /\ ~last'.threw
       /\ last'.ret # Null
       /\ LET t == last'.ret[1]
          IN /\ t.id \notin KnownIds
             /\ t.dateCreated = Now(nextId)
             /\ t.players = <<>>
             /\ t.isActive = TRUE
             /\ last'.saved
             /\ teams' = Append(teams, t)]_vars

\* C10: when the store throws during the initial load, the error does not leave
\* loadTeams and the provider settles with teams = [] and loading = false.
C10_LoadFailureSettles ==
  (last.op = "load" /\ ReadThrows(blob))
    => (~last.threw /\ teams = <<>> /\ loading = FALSE)

C10_Witness ==
  /\ last.op = "load" /\ ReadThrows(blob)
  /\ mounted /\ ~loading

\* C11: the provider starts with loading = true and teams = []; loading is true
\* until the initial load has run; after every load or refreshData, whether the
\* store read succeeded or threw, loading is false, and it ends up false for good.
C11_LoadingSettles ==
  /\ [](~mounted => (loading /\ teams = <<>>))
  /\ [](last.op \in {"load", "refreshData"} => ~loading)
  /\ [](mounted => ~loading)
  /\ <>[](~loading)

C11_Witness ==
  /\ last.op = "refreshData" /\ ReadThrows(blob)
  /\ ~loading /\ teams # <<>>

\* ---------------------------------------------------------------- claims, player operations
\* C8: addPlayer(teamId, data) on an existing team creates a player with a fresh id
\* and dateAdded = now, appends it to the team's players in the store and in
\* memory, and keeps an isActive = false the caller passed.
C8_AddPlayerKeepsIsActive ==
  [][(/\ last'.op = "addPlayer" /\ ~ReadThrows(blob)
      /\ getTeamById(blob, last'.id) # Null)
       => /\ last'.ret # Null
          /\ LET p == last'.ret[1]
                 stored == getTeamById(blob, last'.id)[1]
             IN /\ p.id \notin PlayerIds
                /\ p.dateAdded = Now(nextId)
                /\ p.isActive = last'.arg.isActive
                /\ last'.wrote =>
                     SamePlayers(getTeamById(blob', last'.id)[1].players,
                                 Append(stored.players, p))
                /\ \A i \in 1..Len(teams) :
                     teams[i].id = last'.id =>
                       teams'[i].players = Append(teams[i].players, p)]_vars

\* C9: after refreshData() with a readable store the in-memory collection is the
\* store's collection; what only the memory held is gone.
C9_RefreshMirrorsStore ==
  (last.op = "refreshData" /\ ~ReadThrows(blob))
    => (teams = getAllTeams(blob) /\ ~last.threw /\ ~loading)

PlayerIdsIn(ts) == UNION {IdsOf(ts[i].players) : i \in 1..Len(ts)}

C9_Witness ==
  /\ last.op = "refreshData" /\ ~ReadThrows(blob)
  /\ teams # <<>>
  /\ PlayerIdsIn(last.pre) \ PlayerIdsIn(teams) # {}

\* C24: a player operation that names a team, or a player of the team, that
\* neither the store nor the memory holds returns its sentinel (null for addPlayer
\* and updatePlayer, false for removePlayer), throws nothing, and leaves the store
\* and the in-memory collection as they were.
C24_MissingIdsChangeNothing ==
  [][LET missingTeam == last'.id \notin KnownIds
         missingPlayer ==
           last'.pid \notin PlayerIdsOfTeam(teams, last'.id)
                              \cup PlayerIdsOfTeam(StoredTeams, last'.id)
         nothingDone == ~last'.threw /\ blob' = blob /\ teams' = teams
     IN /\ (last'.op = "addPlayer" /\ missingTeam) => (nothingDone /\ last'.ret = Null)
        /\ (last'.op = "updatePlayer" /\ (missingTeam \/ missingPlayer))
             => (nothingDone /\ last'.ret = Null)
        /\ (last'.op = "removePlayer" /\ (missingTeam \/ missingPlayer))
             => (nothingDone /\ last'.ret = FALSE)]_vars

\* C25: updatePlayer merges the partial into the record the store holds for the
\* player: when another writer has just given the stored player a newer value, a
\* field of the stored player that the partial does not name has, after the update
\* is written, the value the store held before.
C25_UpdatePlayerMergesStoreRecord ==
  [][(/\ last.op = "otherTab"
      /\ last'.op = "updatePlayer" /\ last'.wrote
      /\ last'.pid \in PlayerIdsOfTeam(StoredTeams, last'.id))
       => LET before == Find(getTeamById(blob, last'.id)[1].players, last'.pid)[1]
              after == Find(getTeamById(blob', last'.id)[1].players, last'.pid)[1]
          IN \A k \in DOMAIN before \ DOMAIN last'.arg : Get(after, k) = before[k]]_vars

\* ---------------------------------------------------------------- claims, failures of the medium
\* C26: when the medium is unavailable, its content is unparsable, or the write of
\* the call is rejected, every operation of the layer returns without throwing and
\* leaves the in-memory collection empty or as it was.
C26_MediumFailureNotFatal ==
  [][(/\ last'.op \in {"createTeam", "updateTeam", "deleteTeam", "addPlayer",
                        "updatePlayer", "removePlayer", "refreshData"}
      /\ \/ blob.kind \in {"nowindow", "unreadable", "garbage"}
         \/ last'.saved /\ ~last'.wrote)
       => /\ ~last'.threw
          /\ teams' = <<>> \/ teams' = teams]_vars

\* ---------------------------------------------------------------- claims, lookups
\* C27: getTeam(id) leaves the store and the memory as they are and returns the
\* in-memory team with that id, or null when the memory has none, whatever the
\* store holds for that id.
C27_GetTeamReadsMemory ==
  [][last'.op = "getTeam"
       => /\ blob' = blob /\ teams' = teams
          /\ IF \E i \in 1..Len(teams) : teams[i].id = last'.id
             THEN \E i \in 1..Len(teams) :
                    /\ teams[i].id = last'.id /\ last'.ret = <<teams[i]>>
                    /\ \A j \in 1..(i - 1) : teams[j].id # last'.id
             ELSE last'.ret = Null]_vars

\* another tab changed the stored team: getTeam still returns the copy the
\* memory holds
C27_Witness ==
  /\ last.op = "getTeam" /\ last.ret # Null
  /\ ~ReadThrows(blob)
  /\ getTeamById(blob, last.id) # Null
  /\ ~SameTeam(getTeamById(blob, last.id)[1], last.ret[1])

\* ---------------------------------------------------------------- claims, jersey range
JerseyInRange(players) ==
  \A i \in 1..Len(players) :
    Get(players[i], "jerseyNumber") # Undefined
      => Get(players[i], "jerseyNumber")[1] \in 0..99

\* C28: every player the roster pages put into the store has, when set, a
\* jerseyNumber in 0..99; a number in 100..999 that PlayerForm accepts stops at
\* validatePlayer in the add and edit flows.
C28_StoredJerseyInRange ==
  /\ \A i \in 1..Len(StoredTeams) : JerseyInRange(StoredTeams[i].players)
  /\ (/\ last.op \in {"handleAddPlayer", "handleEditPlayer"}
      /\ last.arg.jerseyNumber # Undefined
      /\ last.arg.jerseyNumber[1] \in 100..999)
       => ~last.saved

\* the form accepted 100 and validatePlayer turned it down
C28_Witness ==
  /\ last.op \in {"handleAddPlayer", "handleEditPlayer"}
  /\ last.arg.jerseyNumber = <<100>>
  /\ PlayerForm_validateForm(last.arg, {})
  /\ last.ret = <<"Jersey number must be between 0 and 99">>
  /\ ~last.saved
  /\ \E i \in 1..Len(StoredTeams) : StoredTeams[i].players # <<>>

\* ---------------------------------------------------------------- claims, deleteTeam
\* after removes exactly the team with that id from before: the team and its
\* players are gone, every other team is where it was among the others
RemovedExactly(before, after, id) ==
  LET others == {i \in 1..Len(before) : before[i].id # id}
  IN /\ getTeam(after, id) = Null
     /\ \A p \in PlayerIdsOfTeam(before, id) : getPlayer(after, id, p) = Null
     /\ Len(after) = Cardinality(others)
     /\ \A i \in others :
          after[Cardinality({j \in others : j <= i})] = before[i]

DeleteSucceeded == last'.op = "deleteTeam" /\ last'.ret = TRUE

Mirrored(ts, stored) ==
  /\ Len(ts) = Len(stored)
  /\ \A i \in 1..Len(ts) : SameTeam(ts[i], stored[i])

\* C30: with one writer whose initial load has completed, after every completed
\* createTeam, updateTeam, deleteTeam, addPlayer, updatePlayer or removePlayer, with
\* any partial and any id, the in-memory collection equals the store's collection;
\* stated here for a medium that has accepted every write.
C30_MemoryMirrorsStore ==
  (/\ mounted /\ ~loading /\ faults = 0
   /\ last.op \in {"createTeam", "updateTeam", "deleteTeam",
                   "addPlayer", "updatePlayer", "removePlayer"})
    => (~ReadThrows(blob) /\ Mirrored(teams, StoredTeams))

====
